---- MODULE Spec2Model ----
(***************************************************************************)
(* A model of pvcircuit/junction.py: the Junction parameter object, its    *)
(* string-keyed setter, its shallow copy, the saturation-current           *)
(* conversions and the two bracketed root-finding solvers.                 *)
(*                                                                         *)
(* Numbers.  A float is modelled as an exact rational extended with        *)
(* +inf, -inf and nan (numpy float64 semantics: x/0 is inf or nan, never   *)
(* an exception), plus the kind "exc" for a Python exception raised while  *)
(* the value was computed.  A value is the record [k, n, d]:               *)
(*   k = "fin": the rational n/d in lowest terms, d > 0;                   *)
(*   k = "inf": n = 1 for +inf, n = -1 for -inf;                           *)
(*   k = "nan"; k = "exc".                                                 *)
(* Rounding is not modelled: "equal within 1e-12 relative" is equality of  *)
(* the rationals.  exp() is modelled by its first-order form clamped at 0  *)
(* (Exp), which keeps exp(0) = 1, monotonicity, continuity and the         *)
(* float fact that exp(x) - 1 is constant for very negative x.             *)
(***************************************************************************)
EXTENDS Integers, Sequences, FiniteSets, TLC

VARIABLES objs, heap, ret, memo

vars == <<objs, heap, ret, memo>>

----------------------------------------------------------------------------
(* Extended rational arithmetic *)

\* The(S) is the element of a one-element set.  A value that is used more
\* than once is bound by it: The({e(x) : x \in {v}}) is e(v), v evaluated once.
The(S) == CHOOSE x \in S : TRUE

Abs(i) == IF i < 0 THEN -i ELSE i

RECURSIVE GCD(_, _)
GCD(a, b) == IF b = 0 THEN a ELSE GCD(b, a % b)

NaN == [k |-> "nan", n |-> 0, d |-> 1]

PInf == [k |-> "inf", n |-> 1, d |-> 1]

NInf == [k |-> "inf", n |-> -1, d |-> 1]

Exc == [k |-> "exc", n |-> 0, d |-> 1]

\* the rational a/b in lowest terms with a positive denominator
Rat(a, b) ==
    The({ [k |-> "fin", n |-> s * (a \div g), d |-> s * (b \div g)]
          : g \in {GCD(Abs(a), Abs(b))}, s \in {IF b < 0 THEN -1 ELSE 1} })

R(i) == [k |-> "fin", n |-> i, d |-> 1]

isfinite(x) == x.k = "fin"

IsNum(x) == x.k \in {"fin", "inf"}

Sgn(x) == IF x.n > 0 THEN 1 ELSE IF x.n < 0 THEN -1 ELSE 0

Signed(s) == IF s > 0 THEN PInf ELSE NInf

FNeg(x) == IF IsNum(x) THEN [x EXCEPT !.n = -x.n] ELSE x

FAdd(x, y) ==
    IF x.k = "exc" \/ y.k = "exc" THEN Exc
    ELSE IF x.k = "nan" \/ y.k = "nan" THEN NaN
    ELSE IF x.k = "inf" /\ y.k = "inf" THEN (IF x.n = y.n THEN x ELSE NaN)
    ELSE IF x.k = "inf" THEN x
    ELSE IF y.k = "inf" THEN y
    ELSE The({ Rat(x.n * (y.d \div g) + y.n * (x.d \div g), (x.d \div g) * y.d)
               : g \in {GCD(x.d, y.d)} })

FSub(x, y) == FAdd(x, FNeg(y))

FMul(x, y) ==
    IF x.k = "exc" \/ y.k = "exc" THEN Exc
    ELSE IF x.k = "nan" \/ y.k = "nan" THEN NaN
    ELSE IF x.k = "inf" \/ y.k = "inf"
         THEN (IF Sgn(x) * Sgn(y) = 0 THEN NaN ELSE Signed(Sgn(x) * Sgn(y)))
    ELSE The({ Rat((x.n \div g1) * (y.n \div g2), (x.d \div g2) * (y.d \div g1))
               : g1 \in {GCD(Abs(x.n), y.d)}, g2 \in {GCD(Abs(y.n), x.d)} })

\* numpy float64 division: a zero divisor gives inf or nan, not an exception
FDiv(x, y) ==
    IF x.k = "exc" \/ y.k = "exc" THEN Exc
    ELSE IF x.k = "nan" \/ y.k = "nan" THEN NaN
    ELSE IF y.k = "inf" THEN (IF x.k = "inf" THEN NaN ELSE R(0))
    ELSE IF y.n = 0 THEN (IF Sgn(x) = 0 THEN NaN ELSE Signed(Sgn(x)))
    ELSE IF x.k = "inf" THEN Signed(Sgn(x) * Sgn(y))
    ELSE FMul(x, Rat(y.d, y.n))

\* comparisons: every comparison with nan is false
FEq(x, y) == IsNum(x) /\ IsNum(y) /\ x = y

FLt(x, y) ==
    /\ IsNum(x) /\ IsNum(y)
    /\ IF x.k = "inf" THEN x.n < 0 /\ x # y
       ELSE IF y.k = "inf" THEN y.n > 0
       ELSE x.n * y.d < y.n * x.d

FLe(x, y) == FLt(x, y) \/ FEq(x, y)

\* np.exp, first-order and clamped at 0
Exp(x) ==
    IF x.k \in {"exc", "nan"} THEN x
    ELSE IF x.k = "inf" THEN (IF x.n > 0 THEN PInf ELSE R(0))
    ELSE IF FLe(R(-1), x) THEN FAdd(R(1), x) ELSE R(0)

\* b ** y for a positive float b, as exp(y * ln b) with ln b taken first-order
Pow(b, y) ==
    IF b.k \in {"exc", "nan"} THEN b
    ELSE IF y.k \in {"exc", "nan"} THEN y
    ELSE IF b = R(1) THEN R(1)
    ELSE Exp(FMul(y, FSub(b, R(1))))

----------------------------------------------------------------------------
(* Constants of junction.py, in model units *)

\* scipy.constants.zero_Celsius (273.15), rounded to an integer
zero_Celsius == 273

\* Boltzmann constant over elementary charge [V/K], rounded so that the
\* thermal voltage at TC_REF is the rational 1/40 V
k_q == Rat(1, 11920)

\* prefix of the detailed-balance current (model current units)
DB_PREFIX == Rat(1, 29800)

Eg_DEFAULT == Rat(11, 10)

TC_REF == 25

AREA_DEFAULT == 1

BETA_DEFAUlT == 15

VLIM_REVERSE == 10

VLIM_FORWARD == 3

\* the voltage tolerance of the solvers is 1/TolDen volt in the model
\* (1e-4 V in the code)
TolDen == 2

VTOL == Rat(1, TolDen)

MAXITER == 1000

J0scale == 1000

----------------------------------------------------------------------------
(* Objects.  objs maps an object name to a Junction's attribute dict, or   *)
(* to NoObj.  The attributes n and J0ratio hold references into heap       *)
(* (numpy arrays are mutable and may be shared); NoRef is an attribute     *)
(* that was never assigned.  RBB_dict is held by value: no code path       *)
(* changes a dict in place, set() only rebinds the attribute.  A dict is   *)
(* written as a record of all five keys, the keys a method does not have   *)
(* being nan.  name is left out.                                           *)

ObjIds == {"a", "b"}

NoObj == [absent |-> TRUE]

NoRef == 0

Live(os) == {o \in ObjIds : os[o] # NoObj}

\* the reference an attribute of an object holds
RefOf(os, o, f) == IF os[o] = NoObj THEN NoRef ELSE os[o][f]

\* the array attributes in a fixed order, as the references they hold
Slots(os) ==
    <<RefOf(os, "a", "n"), RefOf(os, "a", "J0ratio"),
      RefOf(os, "b", "n"), RefOf(os, "b", "J0ratio")>>

\* the first slot that holds r
FirstSlot(S, r) == CHOOSE i \in 1 .. Len(S) : S[i] = r /\ \A k \in 1 .. (i - 1) : S[k] # r

\* References are names: a state is kept with its live arrays numbered in
\* the order of Slots and the arrays nothing refers to dropped.
Rank(S, r) ==
    IF r = NoRef THEN NoRef
    ELSE Cardinality({S[k] : k \in 1 .. (FirstSlot(S, r) - 1)} \ {NoRef}) + 1

LiveRefs(S) == {S[k] : k \in 1 .. Len(S)} \ {NoRef}

CanonObjs(os) ==
    [o \in ObjIds |->
        IF os[o] = NoObj THEN NoObj
        ELSE [os[o] EXCEPT !.n = Rank(Slots(os), @), !.J0ratio = Rank(Slots(os), @)]]

CanonHeap(os, h) ==
    [q \in 1 .. Cardinality(LiveRefs(Slots(os))) |->
        h[CHOOSE r \in LiveRefs(Slots(os)) : Rank(Slots(os), r) = q]]

\* a fresh array reference
NewRef(h) == Len(h) + 1

RBB_None == [method |-> "None", mrb |-> NaN, J0rb |-> NaN, Vrb |-> NaN, avalanche |-> NaN]

RBB_JFG == [method |-> "JFG", mrb |-> R(10), J0rb |-> Rat(1, 2), Vrb |-> R(0), avalanche |-> NaN]

RBB_bishop == [method |-> "bishop", mrb |-> Rat(82, 25), J0rb |-> NaN, Vrb |-> Rat(-11, 2), avalanche |-> R(1)]

Ok(v) == [tag |-> "ok", val |-> v]

Raise(e) == [tag |-> "raise", val |-> e]

\* a returned numpy array (Ok is any other returned value)
Arr(s) == [tag |-> "array", val |-> s]

----------------------------------------------------------------------------
(* Derived quantities *)

TK(j) == FAdd(j.TC, R(zero_Celsius))

Vth(j) == FMul(k_q, TK(j))

\* The magnitude of the closed form DB_PREFIX * TK^3 * (x^2 + 2x + 2) * exp(-x),
\* x = Eg / Vth, does not fit the model's numbers; the model keeps what it
\* depends on (Eg and TC, through TK and x), decreasing in x: DB_PREFIX * TK / x.
Jdb(j) ==
    The({ FDiv(FMul(DB_PREFIX, TK(j)), EgkT) : EgkT \in {FDiv(j.Eg, Vth(j))} })

Jphoto(j) == FAdd(FDiv(FMul(j.Jext, j.lightarea), j.totalarea), j.JLC)

\* the J0 property without the final division by J0scale
J0_unscaled(j, h) ==
    IF j.n = NoRef \/ j.J0ratio = NoRef THEN Raise("AttributeError")
    ELSE IF Len(h[j.n]) = Len(h[j.J0ratio])
         THEN Arr([i \in 1 .. Len(h[j.n]) |->
                    FMul(Pow(FMul(Jdb(j), R(J0scale)), FDiv(R(1), h[j.n][i])),
                         h[j.J0ratio][i])])
         ELSE Ok(NaN)

\* the J0 property raising for arrays of different sizes
J0_raising(j, h) ==
    IF j.n = NoRef \/ j.J0ratio = NoRef THEN Raise("AttributeError")
    ELSE IF Len(h[j.n]) = Len(h[j.J0ratio])
         THEN Arr([i \in 1 .. Len(h[j.n]) |->
                    FDiv(FMul(Pow(FMul(Jdb(j), R(J0scale)), FDiv(R(1), h[j.n][i])),
                              h[j.J0ratio][i]),
                         R(J0scale))])
         ELSE Raise("ValueError")

\* the J0 property: an array, the float nan, or an AttributeError
J0(j, h) ==
    IF j.n = NoRef \/ j.J0ratio = NoRef THEN Raise("AttributeError")
    ELSE IF Len(h[j.n]) = Len(h[j.J0ratio])
         THEN Arr([i \in 1 .. Len(h[j.n]) |->
                    FDiv(FMul(Pow(FMul(Jdb(j), R(J0scale)), FDiv(R(1), h[j.n][i])),
                              h[j.J0ratio][i]),
                         R(J0scale))])
         ELSE Ok(NaN)   \* different sizes

\* the array _J0init assigns to J0ratio when the sizes agree
J0initRatio(j, h, J0ref) ==
    [i \in 1 .. Len(J0ref) |->
        FDiv(FMul(R(J0scale), J0ref[i]),
             Pow(FMul(Jdb(j), R(J0scale)), FDiv(R(1), h[j.n][i])))]

RECURSIVE SumSeq(_)
SumSeq(s) == IF s = <<>> THEN R(0) ELSE FAdd(s[1], SumSeq(Tail(s)))

\* notdiode() without its test of pn
notdiode_ignoring_pn(j, h) ==
    The({ IF s.tag = "raise" THEN s
          ELSE IF s.tag # "array" THEN Raise("TypeError")
          ELSE Ok(FEq(SumSeq(s.val), R(0)))
          : s \in {J0(j, h)} })

\* notdiode(): True, False or the exception it raises.  Iterating the float
\* nan that J0 returns for arrays of different sizes is a TypeError.
notdiode(j, h) ==
    IF j.pn = 0 THEN Ok(TRUE)
    ELSE The({ IF s.tag = "raise" THEN s
               ELSE IF s.tag # "array" THEN Raise("TypeError")
               ELSE Ok(FEq(SumSeq(s.val), R(0)))
               : s \in {J0(j, h)} })

\* one diode's term of Jmultidiodes
DiodeTerm(j, ideality_factor, saturation_current, Vdiode) ==
    IF FLt(R(0), ideality_factor) /\ isfinite(saturation_current)
    THEN FMul(saturation_current,
              FSub(Exp(FDiv(FDiv(Vdiode, Vth(j)), ideality_factor)), R(1)))
    ELSE R(0)

\* zip(self.n, self.J0) stops at the shorter one; a float J0 is a TypeError
Jmultidiodes(j, h, Vdiode) ==
    The({ IF s.tag # "array" THEN Exc
          ELSE SumSeq([i \in 1 .. Len(s.val) |->
                          DiodeTerm(j, h[j.n][i], s.val[i], Vdiode)])
          : s \in {J0(j, h)} })

\* JRBB with the JFG term added at every voltage
JRBB_unguarded(j, Vdiode) ==
    IF j.RBB_dict.method = "JFG"
    THEN IF ~FEq(j.RBB_dict.mrb, R(0))
         THEN FMul(FDiv(FMul(FNeg(j.RBB_dict.J0rb),
                             Pow(FMul(Jdb(j), R(1000)), FDiv(R(1), j.RBB_dict.mrb))),
                        R(1000)),
                   FSub(Exp(FDiv(FDiv(FNeg(Vdiode), Vth(j)), j.RBB_dict.mrb)), R(1)))
         ELSE R(0)
    ELSE R(0)

\* the breakdown current JRBB added to the shunt current
JRBB(j, Vdiode) ==
    IF j.RBB_dict.method = "JFG"
    THEN IF FLe(Vdiode, j.RBB_dict.Vrb) /\ ~FEq(j.RBB_dict.mrb, R(0))
         THEN FMul(FDiv(FMul(FNeg(j.RBB_dict.J0rb),
                             Pow(FMul(Jdb(j), R(1000)), FDiv(R(1), j.RBB_dict.mrb))),
                        R(1000)),
                   FSub(Exp(FDiv(FDiv(FNeg(Vdiode), Vth(j)), j.RBB_dict.mrb)), R(1)))
         ELSE R(0)
    ELSE IF j.RBB_dict.method = "bishop"
    THEN IF FLe(Vdiode, R(0)) /\ ~FEq(j.RBB_dict.Vrb, R(0))
         THEN The({ FMul(FMul(FMul(Vdiode, j.Gsh), j.RBB_dict.avalanche),
                         \* Python float power: 0.0 ** negative raises
                         \* ZeroDivisionError; a negative base gives no real number
                         IF FEq(base, R(0)) /\ FLt(R(0), j.RBB_dict.mrb) THEN Exc
                         ELSE IF FLt(base, R(0)) THEN NaN
                         ELSE Pow(base, FNeg(j.RBB_dict.mrb)))
                    : base \in {FSub(R(1), FDiv(Vdiode, j.RBB_dict.Vrb))} })
         ELSE R(0)
    ELSE R(0)

JshuntRBB(j, Vdiode) == FAdd(FMul(Vdiode, j.Gsh), JRBB(j, Vdiode))

\* Jparallel as the root finder sees it: an exception is the value Exc
Jparallel(j, h, Vdiode, Jtot) ==
    The({ IF nd.tag = "raise" THEN Exc
          ELSE IF nd.val THEN Jtot
          ELSE FSub(FSub(Jtot, Jmultidiodes(j, h, Vdiode)), JshuntRBB(j, Vdiode))
          : nd \in {notdiode(j, h)} })

_dV(j, h, Vmid, Vtot) ==
    FAdd(FSub(Vtot, Vmid), FMul(Jparallel(j, h, Vmid, Jphoto(j)), j.Rser))

----------------------------------------------------------------------------
(* scipy.optimize.brentq, by its contract: a bracketing search on [xa, xb]  *)
(* that raises ValueError unless f(xa) and f(xb) differ in sign (or one is  *)
(* zero), raises ValueError on a nan function value, lets an exception of   *)
(* f through, raises RuntimeError (disp=True) when maxiter iterations did   *)
(* not narrow the bracket below xtol, and otherwise returns an end of a     *)
(* sign-changing bracket narrower than xtol, or an exact zero.  The steps   *)
(* are bisections; rtol (1e-15) is left out.  A problem prob is the         *)
(* function being zeroed with its extra argument: [f, j, h, arg].           *)

Residual(prob, V) ==
    IF prob.f = "Jparallel" THEN Jparallel(prob.j, prob.h, V, prob.arg)
    ELSE _dV(prob.j, prob.h, V, prob.arg)

Half(x) == FDiv(x, R(2))

RECURSIVE Bisect(_, _, _, _, _, _, _, _)
Bisect(prob, xpre, fpre, xcur, fcur, xtol, maxiter, i) ==
    IF FLt(FSub(IF FLt(xpre, xcur) THEN xcur ELSE xpre,
                IF FLt(xpre, xcur) THEN xpre ELSE xcur), xtol)
    THEN Ok(xcur)
    ELSE IF i >= maxiter THEN Raise("RuntimeError")
    ELSE The({ The({ IF fm.k = "exc" THEN Raise("Exception")
                     ELSE IF fm.k = "nan" THEN Raise("ValueError")
                     ELSE IF Sgn(fm) = 0 THEN Ok(xm)
                     ELSE IF Sgn(fm) = Sgn(fcur)
                          THEN Bisect(prob, xpre, fpre, xm, fm, xtol, maxiter, i + 1)
                          ELSE Bisect(prob, xcur, fcur, xm, fm, xtol, maxiter, i + 1)
                     : fm \in {Residual(prob, xm)} })
               : xm \in {Half(FAdd(xpre, xcur))} })

brentq(prob, xa, xb, xtol, maxiter) ==
    The({ IF fa.k = "exc" \/ fb.k = "exc" THEN Raise("Exception")
          ELSE IF fa.k = "nan" \/ fb.k = "nan" THEN Raise("ValueError")
          ELSE IF Sgn(fa) * Sgn(fb) > 0 THEN Raise("ValueError")
          ELSE IF Sgn(fa) = 0 THEN Ok(xa)
          ELSE IF Sgn(fb) = 0 THEN Ok(xb)
          ELSE Bisect(prob, xa, fa, xb, fb, xtol, maxiter, 0)
          : fa \in {Residual(prob, xa)}, fb \in {Residual(prob, xb)} })

----------------------------------------------------------------------------
(* The solvers: the returned float, or the exception that escapes.  The    *)
(* field brentq records whether the call reached the root finder.          *)

Solved(r, used) == [tag |-> r.tag, val |-> r.val, brentq |-> used]

\* a solver whose except clause returns 0. instead of nan
Solver_zero_on_failure(nd, prob) ==
    IF nd.tag = "raise" THEN Solved(nd, FALSE)
    ELSE IF nd.val THEN Solved(Ok(R(0)), FALSE)
    ELSE The({ IF r.tag = "raise" THEN Solved(Ok(R(0)), TRUE) ELSE Solved(r, TRUE)
               : r \in {brentq(prob, R(-VLIM_REVERSE), R(VLIM_FORWARD), VTOL, MAXITER)} })

\* what a solver returns once notdiode() returned nd and, for a diode,
\* brentq was called on prob: the except clause turns any exception of the
\* root finder into nan
Solver(nd, prob) ==
    IF nd.tag = "raise" THEN Solved(nd, FALSE)
    ELSE IF nd.val THEN Solved(Ok(R(0)), FALSE)
    ELSE The({ IF r.tag = "raise" THEN Solved(Ok(NaN), TRUE) ELSE Solved(r, TRUE)
               : r \in {brentq(prob, R(-VLIM_REVERSE), R(VLIM_FORWARD), VTOL, MAXITER)} })

Vdiode(j, h, Jdiode) ==
    Solver(notdiode(j, h),
          [f |-> "Jparallel", j |-> j, h |-> h, arg |-> FAdd(Jphoto(j), Jdiode)])

Vmid(j, h, Vtot) ==
    Solver(notdiode(j, h), [f |-> "_dV", j |-> j, h |-> h, arg |-> Vtot])

----------------------------------------------------------------------------
(* set(), _J0init(), __init__() and copy() as functions of an attribute    *)
(* dict j and the heap h: the new [j, h] and what the call returns (res).  *)

Step(j, h, res) == [j |-> j, h |-> h, res |-> res]

\* an element-wise assignment that appends instead of writing in place
SetElem_appending(j, h, attr, i, value) ==
    IF j[attr] = NoRef THEN Step(j, h, Raise("AttributeError"))
    ELSE Step(j, [h EXCEPT ![j[attr]] = Append(@, value)], Ok("None"))

\* self.<attr>[i] = np.float64(value): writes into the array in place
SetElem(j, h, attr, i, value) ==
    IF j[attr] = NoRef THEN Step(j, h, Raise("AttributeError"))
    ELSE IF i >= Len(h[j[attr]]) THEN Step(j, h, Raise("IndexError"))
    ELSE Step(j, [h EXCEPT ![j[attr]][i + 1] = value], Ok("None"))

\* one key of set(**kwargs)
set(j, h, key, value) ==
    IF key = "RBB"
    THEN IF value = "JFG" THEN Step([j EXCEPT !.RBB_dict = RBB_JFG], h, Ok("None"))
         ELSE IF value = "bishop" THEN Step([j EXCEPT !.RBB_dict = RBB_bishop], h, Ok("None"))
         ELSE Step([j EXCEPT !.RBB_dict = RBB_None], h, Ok("None"))
    ELSE IF key = "area"
    THEN Step([j EXCEPT !.lightarea = value, !.totalarea = value], h, Ok("None"))
    ELSE IF key = "pn" THEN Step([j EXCEPT !.pn = value], h, Ok("None"))   \* int(value)
    ELSE IF key = "RBB_dict" THEN Step([j EXCEPT !.RBB_dict = value], h, Ok("None"))
    ELSE IF key \in {"n", "J0ratio"}
    THEN Step([j EXCEPT ![key] = NewRef(h)], Append(h, value), Ok("None"))
    ELSE IF key = "n[0]" THEN SetElem(j, h, "n", 0, value)
    ELSE IF key = "n[1]" THEN SetElem(j, h, "n", 1, value)
    ELSE IF key = "n[2]" THEN SetElem(j, h, "n", 2, value)
    ELSE IF key = "n[3]" THEN SetElem(j, h, "n", 3, value)
    ELSE IF key = "J0ratio[0]" THEN SetElem(j, h, "J0ratio", 0, value)
    ELSE IF key = "J0ratio[1]" THEN SetElem(j, h, "J0ratio", 1, value)
    ELSE IF key = "J0ratio[2]" THEN SetElem(j, h, "J0ratio", 2, value)
    ELSE IF key = "J0ratio[3]" THEN SetElem(j, h, "J0ratio", 3, value)
    ELSE Step([j EXCEPT ![key] = value], h, Ok("None"))

\* _J0init(J0ref): assigns J0ratio and returns 0, or returns 1 and assigns nothing
_J0init(j, h, J0ref) ==
    IF Len(h[j.n]) = Len(J0ref)
    THEN Step([j EXCEPT !.J0ratio = NewRef(h)], Append(h, J0initRatio(j, h, J0ref)), Ok(0))
    ELSE Step(j, h, Ok(1))

\* Junction(...): a is the record of the keyword arguments; the argument
\* J0ref is None (J0refNone) or a list (J0refList)
J0refNone == [none |-> TRUE, val |-> <<>>]

J0refList(s) == [none |-> FALSE, val |-> s]

\* the attributes assigned before J0ratio is, n being the reference rn
UserInputs(a, rn) ==
    [Eg |-> a.Eg, TC |-> a.TC, Jext |-> a.Jext, Gsh |-> a.Gsh,
     Rser |-> a.Rser, lightarea |-> a.area, totalarea |-> a.area,
     pn |-> a.pn, beta |-> a.beta, gamma |-> a.gamma, JLC |-> a.JLC,
     n |-> rn, J0ratio |-> NoRef, RBB_dict |-> RBB_None]

\* the J0ratio step of __init__; the status _J0init returns is dropped
InitJ0ratio(a, j1, h1) ==
    IF a.J0ref = J0refNone
    THEN Step([j1 EXCEPT !.J0ratio = NewRef(h1)], Append(h1, a.J0ratio), Ok("None"))
    ELSE _J0init(j1, h1, a.J0ref.val)

Junction(a, h) ==
    The({ set(s2.j, s2.h, "RBB", a.RBB)
          : s2 \in {InitJ0ratio(a, UserInputs(a, NewRef(h)), Append(h, a.n))} })

\* the keyword defaults of __init__
Defaults ==
    [Eg |-> Eg_DEFAULT, TC |-> R(TC_REF), Gsh |-> R(0), Rser |-> R(0),
     area |-> R(AREA_DEFAULT), n |-> <<R(1), R(2)>>, J0ratio |-> <<R(10), R(10)>>,
     J0ref |-> J0refNone, RBB |-> "None", Jext |-> Rat(1, 25), JLC |-> R(0),
     pn |-> -1, beta |-> R(BETA_DEFAUlT), gamma |-> R(0)]

\* copy.copy(self): a new attribute dict holding the same references
copy(j) == j

----------------------------------------------------------------------------
(* The state machine.  ret is the last call: its name, the object it was   *)
(* made on, its argument and what it returned or raised.  memo is a solver *)
(* call remembered to compare a later, equal call with; a call that may    *)
(* change a parameter forgets it.                                          *)

Call(op, o, arg, res) == [op |-> op, obj |-> o, arg |-> arg, res |-> res]

\* a call remembered; again: a later call with the same arguments was made
Remember(c) == [call |-> c, again |-> FALSE]

NoMemo == Remember(Call("none", "a", "None", Ok("None")))

SameCall(c1, c2) == c1.op = c2.op /\ c1.obj = c2.obj /\ c1.arg = c2.arg

\* memo after the solver call c
Recall(m, c, keep) ==
    IF keep THEN Remember(c)
    ELSE IF SameCall(m.call, c) THEN [m EXCEPT !.again = TRUE]
    ELSE m

\* the objects and heap after a call returned s on object o
Commit(o, s) ==
    \E os \in {[objs EXCEPT ![o] = s.j]} :
        /\ objs' = CanonObjs(os)
        /\ heap' = CanonHeap(os, s.h)

Set(o, key, value) ==
    /\ objs[o] # NoObj
    /\ \E s \in {set(objs[o], heap, key, value)} :
           /\ Commit(o, s)
           /\ ret' = Call("set", o, key, s.res)
    /\ memo' = NoMemo

Copy ==
    /\ objs["a"] # NoObj
    /\ \E os \in {[objs EXCEPT !["b"] = copy(objs["a"])]} :
           /\ objs' = CanonObjs(os)
           /\ heap' = CanonHeap(os, heap)
    /\ ret' = Call("copy", "a", "None", Ok("b"))
    /\ memo' = NoMemo

CallJ0init(o, J0ref) ==
    /\ objs[o] # NoObj
    /\ \E s \in {_J0init(objs[o], heap, J0ref)} :
           /\ Commit(o, s)
           /\ ret' = Call("_J0init", o, J0ref, s.res)
    /\ memo' = Remember(ret')

CallJ0(o) ==
    /\ objs[o] # NoObj
    /\ ret' = Call("J0", o, "None", J0(objs[o], heap))
    /\ UNCHANGED <<objs, heap, memo>>

CallNotdiode(o) ==
    /\ objs[o] # NoObj
    /\ ret' = Call("notdiode", o, "None", notdiode(objs[o], heap))
    /\ UNCHANGED <<objs, heap, memo>>

CallJshuntRBB(o, V) ==
    /\ objs[o] # NoObj
    /\ \E r \in {JshuntRBB(objs[o], V)} :
           ret' = Call("JshuntRBB", o, V, IF r.k = "exc" THEN Raise("Exception") ELSE Ok(r))
    /\ UNCHANGED <<objs, heap, memo>>

\* a Vdiode that keeps Jtot in an attribute of the junction
CallVdiode_storing(o, Jdiode, keep) ==
    /\ objs[o] # NoObj
    /\ ret' = Call("Vdiode", o, Jdiode, Vdiode(objs[o], heap, Jdiode))
    /\ memo' = Recall(memo, ret', keep)
    /\ objs' = [objs EXCEPT ![o].JLC = FAdd(Jphoto(objs[o]), Jdiode)]
    /\ UNCHANGED heap

CallVdiode(o, Jdiode, keep) ==
    /\ objs[o] # NoObj
    /\ ret' = Call("Vdiode", o, Jdiode, Vdiode(objs[o], heap, Jdiode))
    /\ memo' = Recall(memo, ret', keep)
    /\ UNCHANGED <<objs, heap>>

CallVmid(o, Vtot, keep) ==
    /\ objs[o] # NoObj
    /\ ret' = Call("Vmid", o, Vtot, Vmid(objs[o], heap, Vtot))
    /\ memo' = Recall(memo, ret', keep)
    /\ UNCHANGED <<objs, heap>>

\* the state after a = Junction(**args)
Constructed(args) ==
    \E s \in {Junction(args, <<>>)} :
        \E os \in {[o \in ObjIds |-> IF o = "a" THEN s.j ELSE NoObj]} :
            /\ objs = CanonObjs(os)
            /\ heap = CanonHeap(os, s.h)
            /\ ret = Call("__init__", "a", "None", s.res)
            /\ memo = NoMemo

----------------------------------------------------------------------------
(* Inputs *)

\* the longest list passed as n, J0ratio or J0ref
MaxLen == 2

\* the lists of length 0 .. MaxLen whose i-th element is e[i]
Prefixes(e) == {[i \in 1 .. k |-> e[i]] : k \in 0 .. MaxLen}

nLists == Prefixes([i \in 1 .. MaxLen |-> IF i % 2 = 1 THEN R(1) ELSE R(2)])

ratioLists == Prefixes([i \in 1 .. MaxLen |-> R(10)])

J0refLists == Prefixes([i \in 1 .. MaxLen |-> Rat(1, 440)])

\* JFG breakdown that sets in at -1 V instead of 0 V
RBB_JFG_m1 == [RBB_JFG EXCEPT !.Vrb = R(-1)]

RBB_pvmismatch == [RBB_None EXCEPT !.method = "pvmismatch"]

JdiodeIn == {R(0), Rat(-1, 25), R(1)}

VtotIn == {R(0), R(-6)}

----------------------------------------------------------------------------
(* Spec: one junction, its setter and its solvers *)

Init ==
    \E J0ref \in {J0refNone} \cup {J0refList(l) : l \in J0refLists} :
        Constructed([Defaults EXCEPT !.J0ref = J0ref])

SetArrays(o) ==
    \/ \E l \in nLists : Set(o, "n", l)
    \/ \E l \in ratioLists : Set(o, "J0ratio", l)
    \/ \E v \in {R(0), R(1)} : Set(o, "n[0]", v)
    \/ \E v \in {R(0), R(10), PInf} : Set(o, "J0ratio[0]", v)

SetSolve(o) ==
    \/ \E v \in {-1, 0} : Set(o, "pn", v)
    \/ \E v \in {"JFG", "bishop", "None"} : Set(o, "RBB", v)
    \/ Set(o, "RBB_dict", RBB_JFG_m1)
    \/ \E v \in {R(0), R(100)} : Set(o, "Rser", v)

Solve(o, K) ==
    \/ \E x \in JdiodeIn, keep \in K : CallVdiode(o, x, keep)
    \/ \E x \in VtotIn, keep \in K : CallVmid(o, x, keep)
    \/ CallNotdiode(o)

Next == SetArrays("a") \/ SetSolve("a") \/ Solve("a", {FALSE})

Spec == Init /\ [][Next]_vars

----------------------------------------------------------------------------
(* Properties of Spec *)

\* the junction the last call was made on
Self == objs[ret.obj]

\* the last call was one of the two solvers
SolverCall == ret.op \in {"Vdiode", "Vmid"}

\* C1: notdiode() returns true exactly when pn = 0 or the saturation
\* currents J0 sum to exactly 0 (the empty list included), and whenever it
\* returns true Vdiode and Vmid return exactly 0 without calling the root
\* finder.
C1_NotDiodeReturnsZero ==
    /\ \A o \in Live(objs) :
          (notdiode(objs[o], heap) = Ok(TRUE))
            <=> \/ objs[o].pn = 0
                \/ /\ J0(objs[o], heap).tag = "array"
                   /\ SumSeq(J0(objs[o], heap).val) = R(0)
    /\ (SolverCall /\ notdiode(Self, heap) = Ok(TRUE))
          => ret.res = [tag |-> "ok", val |-> R(0), brentq |-> FALSE]

\* a solver was called on a junction with pn # 0 whose saturation currents
\* sum to 0, and returned 0
C1_Witness ==
    /\ SolverCall
    /\ Self.pn # 0
    /\ notdiode(Self, heap) = Ok(TRUE)
    /\ ret.res.val = R(0)

\* C2: whatever the constructor and set() made of the junction, Vdiode and
\* Vmid return a voltage or nan; no exception leaves them.
C2_SolversNeverRaise == SolverCall => ret.res.tag = "ok"

\* the problem the last solver call handed to the root finder
Problem ==
    IF ret.op = "Vdiode"
    THEN [f |-> "Jparallel", j |-> Self, h |-> heap, arg |-> FAdd(Jphoto(Self), ret.arg)]
    ELSE [f |-> "_dV", j |-> Self, h |-> heap, arg |-> ret.arg]

\* both values are numbers of the same strict sign
SameSign(fa, fb) == IsNum(fa) /\ IsNum(fb) /\ Sgn(fa) * Sgn(fb) > 0

\* the residual of Problem does not change sign between the bracket ends
NoSignChange ==
    SameSign(Residual(Problem, R(-VLIM_REVERSE)), Residual(Problem, R(VLIM_FORWARD)))

\* the search of Problem ran out of iterations
NotConverged ==
    brentq(Problem, R(-VLIM_REVERSE), R(VLIM_FORWARD), VTOL, MAXITER) = Raise("RuntimeError")

\* C6: for a diode, when the residual being zeroed has the same sign at
\* -VLIM_REVERSE and at VLIM_FORWARD, or the search did not converge within
\* MAXITER iterations, the solver returns nan, never a voltage.
C6_NaNWhenNoRoot ==
    (SolverCall /\ notdiode(Self, heap) = Ok(FALSE) /\ (NoSignChange \/ NotConverged))
        => ret.res = [tag |-> "ok", val |-> NaN, brentq |-> TRUE]

\* Vdiode was called on a diode whose residual has one sign at both ends
C6_Witness ==
    /\ ret.op = "Vdiode"
    /\ notdiode(Self, heap) = Ok(FALSE)
    /\ NoSignChange
    /\ ret.res.val = NaN

\* the series equation of Vmid at v, written out
SeriesEq(j, h, v, Vtot) ==
    FAdd(FSub(Vtot, v), FMul(Jparallel(j, h, v, Jphoto(j)), j.Rser))

\* the JFG breakdown current sets in at Vrb, where SeriesEq may jump
JumpAt(j, x) ==
    /\ j.RBB_dict.method = "JFG"
    /\ ~FEq(j.RBB_dict.mrb, R(0))
    /\ FEq(j.RBB_dict.Vrb, x)

\* SeriesEq just right of the jump: the breakdown current is off there
SeriesEqRightOf(j, h, v, Vtot) == SeriesEq([j EXCEPT !.RBB_dict = RBB_None], h, v, Vtot)

\* A function that is continuous and monotone on [lo, hi], as SeriesEq is
\* between jumps in the states of Spec (Rser >= 0, J0 >= 0, Gsh = 0), has a
\* zero there exactly when its end values fl and fr do not have the same
\* strict sign.
HasZero(fl, fr) == IsNum(fl) /\ IsNum(fr) /\ Sgn(fl) * Sgn(fr) <= 0

\* SeriesEq(., Vtot) has a zero within tol of v
ZeroWithin(j, h, v, Vtot, tol) ==
    LET lo == FSub(v, tol)
        hi == FAdd(v, tol)
        Vrb == j.RBB_dict.Vrb
    IN  IF JumpAt(j, Vrb) /\ FLe(lo, Vrb) /\ FLt(Vrb, hi)
        THEN \/ HasZero(SeriesEq(j, h, lo, Vtot), SeriesEq(j, h, Vrb, Vtot))
             \/ /\ Sgn(SeriesEqRightOf(j, h, Vrb, Vtot)) # 0
                /\ HasZero(SeriesEqRightOf(j, h, Vrb, Vtot), SeriesEq(j, h, hi, Vtot))
        ELSE HasZero(SeriesEq(j, h, lo, Vtot), SeriesEq(j, h, hi, Vtot))

\* C7: for a diode with Rser > 0, a value v other than nan that Vmid(Vtot)
\* returns lies in [-VLIM_REVERSE, VLIM_FORWARD] and solves the series
\* equation Vtot - v + Jparallel(v, Jphoto) * Rser = 0 to within the voltage
\* tolerance: a zero of the equation lies within VTOL of v.
C7_VmidSolvesSeriesEquation ==
    (/\ ret.op = "Vmid"
     /\ notdiode(Self, heap) = Ok(FALSE)
     /\ FLt(R(0), Self.Rser)
     /\ ret.res.tag = "ok"
     /\ ret.res.val # NaN)
        => /\ FLe(R(-VLIM_REVERSE), ret.res.val)
           /\ FLe(ret.res.val, R(VLIM_FORWARD))
           /\ ZeroWithin(Self, heap, ret.res.val, ret.arg, VTOL)

----------------------------------------------------------------------------
(* SpecJ0: the arrays n and J0ratio and the saturation-current conversions *)

SetTemperature(o) == \E v \in {R(TC_REF), R(-124)} : Set(o, "TC", v)

Convert(o) ==
    \/ \E l \in J0refLists : CallJ0init(o, l)
    \/ CallJ0(o)

NextJ0 == SetArrays("a") \/ SetTemperature("a") \/ Convert("a")

SpecJ0 == Init /\ [][NextJ0]_vars

\* the lengths of n and J0ratio of every junction (-1: never assigned)
Lengths ==
    [o \in Live(objs) |->
        [n |-> Len(heap[objs[o].n]),
         J0ratio |-> IF objs[o].J0ratio = NoRef THEN -1
                     ELSE Len(heap[objs[o].J0ratio])]]

\* C3: in every reachable state n and J0ratio have the same length.
C3_SameLength ==
    \A o \in Live(objs) :
        objs[o].J0ratio # NoRef => Len(heap[objs[o].n]) = Len(heap[objs[o].J0ratio])

\* C3 as amended: a set() call with any key other than the whole-array keys
\* 'n' and 'J0ratio' (the element-wise keys included) changes the length of
\* neither n nor J0ratio.
C3_OtherKeysKeepLengths ==
    [][(ret'.op = "set" /\ ret'.arg \notin {"n", "J0ratio"}) => Lengths' = Lengths]_vars

\* an element-wise set() succeeded on arrays of equal length
C3_Witness ==
    /\ ret.op = "set"
    /\ ret.arg \in {"n[0]", "J0ratio[0]"}
    /\ ret.res = Ok("None")
    /\ Lengths["a"].n = Lengths["a"].J0ratio

RoundTrip ==
    /\ ret.op = "J0"
    /\ memo.call.op = "_J0init"
    /\ memo.call.obj = ret.obj
    /\ memo.call.res = Ok(0)

\* every factor (Jdb * J0scale) ** (1 / n[i]) is finite and not zero, and
\* every ratio _J0init stored is finite
ScaleFactorsRegular(j, h) ==
    \A i \in 1 .. Len(h[j.n]) :
        LET D == Pow(FMul(Jdb(j), R(J0scale)), FDiv(R(1), h[j.n][i]))
        IN  D.k = "fin" /\ D.n # 0 /\ isfinite(h[j.J0ratio][i])

\* C10: for n and J0ref of the same length, _J0init(J0ref) followed by
\* reading J0 reproduces J0ref element by element.
C10_RoundTrip == RoundTrip => ret.res = Arr(memo.call.arg)

\* C10 as amended: the round trip reproduces J0ref when every factor
\* (Jdb * J0scale) ** (1 / n[i]) is finite and not zero and every ratio
\* J0scale * J0ref[i] / factor is finite.
C10_RoundTripRegular ==
    (RoundTrip /\ ScaleFactorsRegular(Self, heap)) => ret.res = Arr(memo.call.arg)

\* a round trip over a non-empty n with regular factors
C10_Witness ==
    /\ RoundTrip
    /\ ScaleFactorsRegular(Self, heap)
    /\ Len(memo.call.arg) > 0
    /\ ret.res = Arr(memo.call.arg)

----------------------------------------------------------------------------
(* SpecCopy: a junction, its copy and set() on either *)

SetOn(o) ==
    \/ \E l \in nLists : Set(o, "n", l)
    \/ \E v \in {R(0), R(1)} : Set(o, "n[0]", v)
    \/ \E v \in {R(0), R(10)} : Set(o, "J0ratio[0]", v)
    \/ \E v \in {"JFG", "None"} : Set(o, "RBB", v)
    \/ \E v \in {R(0), R(100)} : Set(o, "Rser", v)

NextCopy == Copy \/ SetOn("a") \/ SetOn("b")

SpecCopy == Init /\ [][NextCopy]_vars

\* every parameter of every junction, the arrays by their contents
Params ==
    [o \in ObjIds |->
        IF objs[o] = NoObj THEN NoObj
        ELSE [objs[o] EXCEPT !.n = heap[@],
                             !.J0ratio = IF @ = NoRef THEN [assigned |-> FALSE, val |-> <<>>]
                                         ELSE [assigned |-> TRUE, val |-> heap[@]]]]

\* C4: junctions share no mutable state, a copy included: a set() call on
\* one junction leaves every parameter of the other unchanged.
C4_NoSharedState ==
    [][\A o \in Live(objs) :
          (ret'.op = "set" /\ ret'.obj # o) => Params'[o] = Params[o]]_vars

----------------------------------------------------------------------------
(* SpecRBB: the shunt and breakdown current *)

RBB_dicts ==
    {RBB_JFG_m1, RBB_pvmismatch, [RBB_JFG EXCEPT !.mrb = R(0)],
     [RBB_bishop EXCEPT !.Vrb = R(0)]}

SetRBB(o) ==
    \/ \E v \in {"JFG", "bishop", "None"} : Set(o, "RBB", v)
    \/ \E d \in RBB_dicts : Set(o, "RBB_dict", d)
    \/ \E v \in {R(0), Rat(1, 100)} : Set(o, "Gsh", v)

VdiodeIn == {R(-6), R(-1), R(0), R(1)}

NextRBB ==
    \/ SetRBB("a")
    \/ SetTemperature("a")
    \/ \E V \in VdiodeIn : CallJshuntRBB("a", V)

SpecRBB == Init /\ [][NextRBB]_vars

\* the guard of the breakdown term of j at the voltage V
Active(j, V) ==
    \/ j.RBB_dict.method = "JFG" /\ FLe(V, j.RBB_dict.Vrb) /\ j.RBB_dict.mrb # R(0)
    \/ j.RBB_dict.method = "bishop" /\ FLe(V, R(0)) /\ j.RBB_dict.Vrb # R(0)

\* what JshuntRBB returned beyond the shunt current V * Gsh
Contribution == FSub(ret.res.val, FMul(ret.arg, Self.Gsh))

\* C8: JshuntRBB(V) is V * Gsh plus a breakdown term; outside the guard of
\* the method (JFG: V <= Vrb and mrb # 0; bishop: V <= 0 and Vrb # 0; any
\* other method: never) the result is exactly V * Gsh, and with the default
\* JFG settings at V = -1 the term is negative.
C8_BreakdownGuards ==
    ret.op = "JshuntRBB"
        => /\ ~Active(Self, ret.arg) => ret.res = Ok(FMul(ret.arg, Self.Gsh))
           /\ (Self.RBB_dict = RBB_JFG /\ ret.arg = R(-1))
                 => ret.res.tag = "ok" /\ FLt(Contribution, R(0))

\* JshuntRBB(-1) with the default JFG settings and a shunt added a negative term
C8_Witness ==
    /\ ret.op = "JshuntRBB"
    /\ Self.RBB_dict = RBB_JFG
    /\ Self.Gsh # R(0)
    /\ ret.arg = R(-1)
    /\ FLt(Contribution, R(0))

----------------------------------------------------------------------------
(* SpecIdem: solver calls, remembered and repeated *)

NextIdem == SetSolve("a") \/ Solve("a", BOOLEAN)

SpecIdem == Init /\ [][NextIdem]_vars

\* C5: the solvers are stateless: a solver or evaluator call changes no
\* parameter of the junction, and a solver call repeated with the same
\* argument, with other solver calls but no set() in between, returns the
\* same result.
C5_Stateless ==
    /\ []((SolverCall /\ SameCall(memo.call, ret)) => ret.res = memo.call.res)
    /\ [][ret'.op \in {"Vdiode", "Vmid", "notdiode"} => UNCHANGED <<objs, heap>>]_vars

\* a call that reached the root finder was repeated and returned the same
C5_Witness ==
    /\ SolverCall
    /\ memo.again
    /\ SameCall(memo.call, ret)
    /\ ret.res.brentq
    /\ ret.res = memo.call.res

====
